---- MODULE Spec2Model ----
(***************************************************************************)
(* Crawl engine of seo-checker: the checker crawl (check.ts: checkPath /   *)
(* checkAllPages) and the sitemap crawl (sitemap generator: checkPath /    *)
(* checkAllPages).  A run crawls one fixed site with one concurrency       *)
(* limit; the completion order of the fetches in flight is free.           *)
(***************************************************************************)
EXTENDS Integers, Sequences, FiniteSets, TLC

VARIABLES
    mode,          \* "check" (check.ts) or "sitemap" (sitemap generator)
    baseUrl,       \* the baseUrl string handed to checkAllPages
    options,       \* [max, seo, accessibility, socialMedia]
    methods,       \* the registry of checks: their names in registration order
    site,          \* the web site: response, document and timing of every path
    pc,            \* position of the run: "start", "exit1", "loop", "await",
                   \* "done", "failed", "reported", "rendered"; "call" for a
                   \* single call of a function
    pagesToCheck,  \* the frontier
    pages,         \* the page record store, a function from its keys
    workers,       \* the checkPath calls of the batch being awaited
    batchNo,       \* number of loop iterations started
    fetchCount,    \* history: page fetches issued so far, per path
    keyOrder,      \* the keys of the store in insertion order (Object.values)
    out,           \* what the run hands over: the report or the sitemap
    call           \* a single call of one function: its input and its result

vars == <<mode, baseUrl, options, methods, site, pc, pagesToCheck, pages, workers,
          batchNo, fetchCount, keyOrder, out, call>>

(***************************************************************************)
(* Bounds                                                                  *)
(***************************************************************************)
MaxLimit == 3
MaxBatches == 16
MaxDepth == 12
Limits == (0 - 1)..MaxLimit

(***************************************************************************)
(* Strings are sequences of tokens: "/a" is <<"/", "a">>.                  *)
(***************************************************************************)
Root == <<"/">>
PA == <<"/", "a">>
PB == <<"/", "b">>
PC == <<"/", "c">>
PD == <<"/", "d">>
PE == <<"/", "e">>
PF == <<"/", "f.pdf">>
PS == <<"/", "sitemap.xml">>
PX == <<"/", "x">>
PR == <<"/", "robots.txt">>
Paths == {Root, PA, PB, PC, PD, PE, PF, PS, PX, PR}

StartsWith(s, tok) == Len(s) > 0 /\ s[1] = tok
EndsWith(s, tok) == Len(s) > 0 /\ s[Len(s)] = tok
Includes(s, tok) == \E i \in 1..Len(s) : s[i] = tok

SiteOrigin == "https://site"
OtherOrigin == "https://other"
BaseUrls == {"https://site", "https://site/", "http//site"}

\* whether new URL(base) succeeds
ValidUrl(base) == base \in {"https://site", "https://site/"}

\* new URL(baseUrl).origin
OriginOf(base) == IF base = "https://site/" THEN "https://site" ELSE base

\* new URL(href, baseUrl): an href is [host, pathname, search], host "" when
\* the href is relative
ResolveUrl(href, base) ==
    [origin |-> IF href.host = "" THEN OriginOf(base) ELSE href.host,
     pathname |-> href.pathname,
     search |-> href.search]

\* new URL(path, baseUrl) for a frontier path
UrlOfPath(path, base) ==
    [origin |-> OriginOf(base), pathname |-> path, search |-> ""]

(***************************************************************************)
(* Responses                                                               *)
(***************************************************************************)
Html == <<"text/html", "; charset=utf-8">>
Pdf == <<"application/pdf">>
Html200 == [throws |-> FALSE, status |-> 200, ctype |-> Html]
Html404 == [throws |-> FALSE, status |-> 404, ctype |-> Html]
Bin200 == [throws |-> FALSE, status |-> 200, ctype |-> Pdf]
Bin404 == [throws |-> FALSE, status |-> 404, ctype |-> Pdf]
Throws == [throws |-> TRUE, status |-> 0, ctype |-> <<>>]
Responses == {Html200, Html404, Bin200, Bin404, Throws}

\* Response.ok
Ok(r) == r.status >= 200 /\ r.status <= 299

(***************************************************************************)
(* Sites.  An href is [host, pathname, search]; a site gives every path    *)
(* its response, the hrefs of its anchors in document order and the        *)
(* responses of its <img src> in document order.                           *)
(***************************************************************************)
Rel(p) == [host |-> "", pathname |-> p, search |-> ""]
RelQ(p) == [host |-> "", pathname |-> p, search |-> "?q=1"]
Abs(p) == [host |-> SiteOrigin, pathname |-> p, search |-> ""]
Ext(p) == [host |-> OtherOrigin, pathname |-> p, search |-> ""]

ImageKinds == {"ok", "notok", "notimage", "throws"}

(***************************************************************************)
(* Documents.  A document is its title and its elements in document order; *)
(* an element has a tag, its attributes in source order, the words of its  *)
(* own text and the index of its parent element (0: none).  Attribute      *)
(* values are token strings, <<>> the empty string.                        *)
(***************************************************************************)
At(name, value) == [name |-> name, value |-> value]
El(tag, attrs, text) == [tag |-> tag, attrs |-> attrs, text |-> text, parent |-> 0]

\* the string of an href as the page writes it
HrefTokens(h) ==
    (IF h.host = "" THEN <<>> ELSE <<h.host>>) \o h.pathname
        \o (IF h.search = "" THEN <<>> ELSE <<h.search>>)

Anchor(h) == El("a", <<At("href", HrefTokens(h))>>, <<"link">>)
Image(kind) == El("img", <<At("src", <<kind>>), At("alt", <<"picture">>)>>, <<>>)

Words(n) == [k \in 1..n |-> "word"]
Chars(n, c) == [k \in 1..n |-> c]

Meta(attr, value) == El("meta", <<At(attr, <<value>>)>>, <<>>)
H1 == El("h1", <<>>, <<"Welcome">>)
MetaDescription == Meta("name", "description")

SocialTags ==
    <<Meta("property", "og:title"), Meta("property", "og:description"),
      Meta("property", "og:image"), Meta("property", "og:url"),
      Meta("property", "og:type"), Meta("name", "twitter:title"),
      Meta("name", "twitter:description"), Meta("name", "twitter:image")>>

\* elements that the checks tell apart
Elements ==
    {H1, El("h1", <<>>, <<>>), El("h1", <<>>, Words(13)), El("h1", <<>>, Words(12)),
     El("h2", <<>>, <<"Part">>), El("h3", <<>>, <<"Section">>),
     El("h4", <<>>, <<"Detail">>),
     MetaDescription, Meta("property", "og:title"), Meta("name", "twitter:image"),
     El("a", <<At("href", <<"/", "a">>)>>, <<"About">>),
     El("a", <<>>, <<>>),
     El("a", <<At("href", <<"/", "a">>)>>, <<>>),
     El("a", <<At("href", <<"/", "a">>), At("aria-label", <<"About">>)>>, <<>>),
     El("button", <<>>, <<>>),
     El("button", <<>>, <<"Send">>),
     El("div", <<At("role", <<"button">>), At("onclick", <<"go()">>)>>, <<>>),
     El("div", <<At("onclick", <<"go()">>)>>, <<"Go">>),
     El("span", <<At("role", <<"bogus">>)>>, <<"x">>),
     El("span", <<>>, <<"Label">>),
     El("div", <<At("role", <<"slider">>)>>, <<"x">>),
     El("div", <<At("role", <<"slider">>), At("aria-valuenow", <<"1">>)>>, <<"x">>),
     El("div", <<At("role", <<"slider">>), At("aria-valuenow", <<"1">>),
                 At("aria-valuemin", <<"0">>), At("aria-valuemax", <<"9">>)>>, <<"x">>),
     El("div", <<At("role", <<"checkbox">>)>>, <<"x">>),
     El("div", <<At("role", <<>>)>>, <<"x">>),
     El("div", <<At("aria-hidden", <<"true">>)>>, <<>>),
     El("div", <<At("aria-hidden", <<>>)>>, <<>>),
     El("img", <<At("src", <<"ok">>)>>, <<>>),
     El("img", <<>>, <<>>),
     El("img", <<At("src", <<"notok">>), At("alt", <<>>)>>, <<>>),
     El("svg", <<>>, <<>>),
     El("svg", <<At("role", <<"img">>), At("aria-label", <<"Logo">>)>>, <<>>),
     El("input", <<At("type", <<"text">>)>>, <<>>),
     El("input", <<At("type", <<"text">>), At("id", <<"name">>)>>, <<>>),
     El("input", <<At("type", <<"checkbox">>)>>, <<>>),
     El("textarea", <<At("aria-labelledby", <<"name">>)>>, <<>>),
     El("label", <<At("for", <<"name">>)>>, <<"Name">>),
     El("label", <<>>, <<"Name">>)}

\* the sequences of at most two elements, the second inside the first or not
ElementSeqs ==
    {<<>>} \cup {<<e>> : e \in Elements}
    \cup {<<e[1], [e[2] EXCEPT !.parent = q]>> : e \in Elements \X Elements, q \in {0, 1}}

\* document.title: the characters of the title element
Titles == {<<>>, <<" ">>, <<"M", "i">>, Chars(31, "M"), Chars(32, "M")}

Doc(title, els) == [title |-> title, els |-> els]

\* a page nothing is reported about
PlainTitle == <<"M", "i">>
PlainBody == <<H1, MetaDescription>>

\* a heading level skipped, an unlabelled field inside a label inside a
\* hidden block, every social tag
DocSkip == Doc(PlainTitle, <<H1, El("h3", <<>>, <<"Section">>), MetaDescription>>)
DocOnlyH3 == Doc(PlainTitle, <<El("h3", <<>>, <<"Section">>), MetaDescription>>)
DocHidden ==
    Doc(PlainTitle, <<[El("div", <<At("aria-hidden", <<"true">>)>>, <<>>) EXCEPT !.parent = 0],
                      [El("label", <<>>, <<"Name">>) EXCEPT !.parent = 1],
                      [El("input", <<At("type", <<"text">>)>>, <<>>) EXCEPT !.parent = 2],
                      [El("img", <<>>, <<>>) EXCEPT !.parent = 1]>>)
DocSocial == Doc(PlainTitle, PlainBody \o SocialTags)
DocTwice == Doc(PlainTitle, <<H1, El("img", <<>>, <<>>), El("img", <<>>, <<>>)>>)

Docs ==
    {Doc(t, <<>>) : t \in Titles} \cup {Doc(PlainTitle, e) : e \in ElementSeqs}
    \cup {DocSkip, DocOnlyH3, DocHidden, DocSocial, DocTwice}

\* the response times of a page fetch, in milliseconds
Times == {0, 1, 500, 999, 1000, 2499, 2500, 2501, 3999, 4000, 4001, 9000}

DefaultResp(p) == IF p \in {PF, PS, PR} THEN Bin200 ELSE Html200

MkSite(links, imgs) ==
    [resp |-> [p \in Paths |-> DefaultResp(p)],
     title |-> [p \in Paths |-> PlainTitle],
     body |-> [p \in Paths |-> PlainBody],
     time |-> [p \in Paths |-> 500],
     links |-> [p \in Paths |-> IF p \in DOMAIN links THEN links[p] ELSE <<>>],
     imgs |-> [p \in Paths |-> IF p \in DOMAIN imgs THEN imgs[p] ELSE <<>>]]

NoImgs == [p \in {} |-> <<>>]

\* a root that links only to one page without links
SiteAbout == MkSite((Root :> <<Rel(PA)>>), NoImgs)

\* a page reachable at two depths, and a page below it
SiteDepths ==
    MkSite((Root :> <<Rel(PA), Rel(PB), Rel(PC)>>) @@ (PA :> <<Rel(PC)>>)
           @@ (PC :> <<Rel(PE)>>), NoImgs)

\* two pages of one batch linking to each other and to a common page
SiteDiamond ==
    MkSite((Root :> <<Rel(PA), Rel(PB)>>) @@ (PA :> <<Rel(PB), Rel(PC), Rel(Root)>>)
           @@ (PB :> <<Rel(PC), RelQ(PA), Rel(PC)>>) @@ (PC :> <<Abs(PA)>>), NoImgs)

\* five pages discoverable from the seed, two of them with images
SiteFive ==
    MkSite((Root :> <<Rel(PA), Rel(PB), Rel(PC), Rel(PD), Rel(PE)>>),
           (PA :> <<"ok", "notok">>) @@ (PB :> <<"throws", "notimage">>))

\* non-HTML resources, the sitemap, a foreign origin and a query string
SiteFiles ==
    MkSite((Root :> <<Rel(PA), Rel(PF), Rel(PS), Ext(PX)>>)
           @@ (PA :> <<Rel(PF), RelQ(Root), Rel(PB)>>) @@ (PB :> <<Rel(PF)>>),
           (Root :> <<"ok">>))

\* a chain with links back
SiteCycle ==
    MkSite((Root :> <<Rel(PA)>>) @@ (PA :> <<Rel(PB)>>)
           @@ (PB :> <<Rel(Root), Rel(PA), RelQ(PB), Rel(PC)>>), NoImgs)

\* links to robots.txt and to the sitemap next to a page
SiteRobots ==
    MkSite((Root :> <<Rel(PR), Rel(PS), Rel(PA)>>) @@ (PA :> <<Rel(Root), Rel(PR)>>),
           NoImgs)

BaseSites ==
    {SiteAbout, SiteDepths, SiteDiamond, SiteFive, SiteFiles, SiteCycle, SiteRobots}

\* every link graph over three paths, the anchors of a page in a fixed order
Linked(targets) ==
    SelectSeq(<<Rel(Root), Rel(PA), Rel(PB)>>, LAMBDA h : h.pathname \in targets)

GraphSites ==
    {MkSite([p \in {Root, PA, PB} |-> Linked(g[p])], NoImgs) :
        g \in [{Root, PA, PB} -> SUBSET {Root, PA, PB}]}

\* every base site, every base site with the response of one path changed,
\* and every small link graph
Sites ==
    {[s EXCEPT !.resp[p] = r] : s \in BaseSites, p \in Paths, r \in Responses}
    \cup GraphSites

(***************************************************************************)
(* Array helpers                                                           *)
(***************************************************************************)
Max(a, b) == IF a > b THEN a ELSE b
Min(a, b) == IF a < b THEN a ELSE b

\* mutants of BatchSize: one entry too many; the limit taken as it is
BatchSizeOffByOne(max) == Max(max, 1) + 1
BatchSizeNoFloor(max) == max

\* Math.max(options.max, 1)
BatchSize(max) == Max(max, 1)

\* mutant of SpliceTaken: the entries are taken from the end
SpliceTakenLast(seq, n) ==
    SubSeq(seq, Len(seq) - Min(Max(n, 0), Len(seq)) + 1, Len(seq))

\* a splice that removes one element more than it returns
SpliceLeftOneMore(seq, n) ==
    SubSeq(seq, Min(Max(n, 0), Len(seq)) + 2, Len(seq))

\* the elements removed by array.splice(0, n), and what is left
SpliceTaken(seq, n) == SubSeq(seq, 1, Min(Max(n, 0), Len(seq)))
SpliceLeft(seq, n) == SubSeq(seq, Min(Max(n, 0), Len(seq)) + 1, Len(seq))

\* mutant of Dedupe: nothing is removed
DedupeKeepsAll(seq) == seq

\* Array.from(new Set(seq)): the first occurrence of every value, in order
RECURSIVE Dedupe(_)
Dedupe(seq) ==
    IF seq = <<>> THEN <<>>
    ELSE LET init == Dedupe(SubSeq(seq, 1, Len(seq) - 1))
             last == seq[Len(seq)]
         IN IF \E i \in 1..Len(init) : init[i] = last THEN init
            ELSE Append(init, last)

\* the results of the last call first
RECURSIVE FlatReversed(_)
FlatReversed(seqs) ==
    IF seqs = <<>> THEN <<>> ELSE FlatReversed(Tail(seqs)) \o Head(seqs)

\* array.flat()
RECURSIVE Flat(_)
Flat(seqs) == IF seqs = <<>> THEN <<>> ELSE Head(seqs) \o Flat(Tail(seqs))

(***************************************************************************)
(* Frontier entries and page records.  The checker's frontier holds path   *)
(* strings, compared by value; the sitemap generator's holds objects       *)
(* {path, depth}, compared by identity: id names the object, by the batch, *)
(* the worker and the position in the worker's result that created it.     *)
(***************************************************************************)
Seed(m) ==
    IF m = "check" THEN [path |-> Root, depth |-> 0, id |-> <<>>]
    ELSE [path |-> Root, depth |-> 1, id |-> <<0, 0, 0>>]

NewEntry(m, parent, pathname, batch, slot, k) ==
    IF m = "check" THEN [path |-> pathname, depth |-> 0, id |-> <<>>]
    ELSE [path |-> pathname, depth |-> parent.depth + 1, id |-> <<batch, slot, k>>]

\* a number written in decimal
RECURSIVE Decimal(_)
Decimal(n) ==
    LET digit == <<"0", "1", "2", "3", "4", "5", "6", "7", "8", "9">>[(n % 10) + 1]
    IN IF n < 10 THEN <<digit>> ELSE Append(Decimal(n \div 10), digit)

HttpError(status) == <<"HTTP error", ": ">> \o Decimal(status)

NoHeadings == [h \in 1..6 |-> <<>>]

PageRecord(m, base, entry, errors, failed, time) ==
    IF m = "check"
    THEN [path |-> UrlOfPath(entry.path, base), title |-> <<>>,
          headings |-> NoHeadings, errors |-> errors, warnings |-> <<>>,
          loadingTime |-> time, performanceScore |-> "undefined"]
    ELSE [path |-> UrlOfPath(entry.path, base), depth |-> entry.depth,
          error |-> failed]

\* pages[key] = rec
Put(store, key, rec) ==
    [k \in (DOMAIN store) \cup {key} |-> IF k = key THEN rec ELSE store[k]]

\* the guard at the head of checkPath
\* mutant of ShouldSkip: only the store is looked at
ShouldSkipStoreOnly(m, path, store) == path \in DOMAIN store

\* the guard of checkPath
ShouldSkip(m, path, store) ==
    IF m = "check"
    THEN \/ path \in DOMAIN store
         \/ StartsWith(path, "http")
         \/ EndsWith(path, "sitemap.xml")
         \/ EndsWith(path, "robots.txt")
    ELSE \/ path \in DOMAIN store
         \/ StartsWith(path, "http")

\* mutant of KeepLink: the origin of the link is not compared
KeepLinkAnyOrigin(url, base, store, acc) ==
    /\ ~ \E i \in 1..Len(acc) : acc[i].path = url.pathname
    /\ ~ \E k \in DOMAIN store : store[k].path = url

\* mutant of KeepLink: a path already among the candidates is kept again
KeepLinkDuplicates(url, base, store, acc) ==
    /\ url.origin = base
    /\ ~ \E k \in DOMAIN store : store[k].path = url

\* whether the loop over the links keeps a link, given the candidates so far
KeepLink(url, base, store, acc) ==
    /\ url.origin = base
    /\ ~ \E i \in 1..Len(acc) : acc[i].path = url.pathname
    /\ ~ \E k \in DOMAIN store : store[k].path = url

\* the loop over the links of a fetched page
RECURSIVE ExtractLinks(_, _, _, _, _, _, _)
ExtractLinks(m, base, parent, hrefs, store, batch, slot) ==
    IF hrefs = <<>> THEN <<>>
    ELSE LET acc == ExtractLinks(m, base, parent, SubSeq(hrefs, 1, Len(hrefs) - 1),
                                 store, batch, slot)
             url == ResolveUrl(hrefs[Len(hrefs)], base)
         IN IF KeepLink(url, base, store, acc)
            THEN Append(acc, NewEntry(m, parent, url.pathname, batch, slot, Len(acc) + 1))
            ELSE acc


\* mutant of AllSettled: the first call that returns settles the batch
AnySettled(ws) == \E i \in 1..Len(ws) : ws[i].st = "done"

\* Promise.all settles with a value once every checkPath call has returned
AllSettled(ws) == \A i \in 1..Len(ws) : ws[i].st = "done"

InFlight == {i \in 1..Len(workers) : workers[i].st \in {"fetch", "image"}}

(***************************************************************************)
(* The document interface the checks use                                   *)
(***************************************************************************)
\* getAttribute's null: a value no attribute holds
Null == <<"(null)">>

HasAttribute(el, name) == \E k \in DOMAIN el.attrs : el.attrs[k].name = name

GetAttribute(el, name) ==
    IF HasAttribute(el, name)
    THEN el.attrs[CHOOSE k \in DOMAIN el.attrs :
                      /\ el.attrs[k].name = name
                      /\ \A j \in 1..(k - 1) : el.attrs[j].name # name].value
    ELSE Null

\* a string in a condition
Truthy(v) == v # Null /\ v # <<>>

\* the elements of a document, to select from
ElementsOf(doc) == {doc.els[i] : i \in 1..Len(doc.els)}

\* querySelectorAll: the indices of the matching elements in document order
QuerySelectorAll(doc, matching) ==
    SelectSeq([i \in 1..Len(doc.els) |-> i], LAMBDA i : doc.els[i] \in matching)

RECURSIVE Ancestors(_, _)
Ancestors(doc, i) ==
    IF doc.els[i].parent = 0 THEN {}
    ELSE {doc.els[i].parent} \cup Ancestors(doc, doc.els[i].parent)

Children(doc, i) == {j \in 1..Len(doc.els) : doc.els[j].parent = i}

\* textContent.trim(): the words of the element and of its descendants
RECURSIVE TextFrom(_, _, _)
TextFrom(doc, i, j) ==
    IF j > Len(doc.els) THEN <<>>
    ELSE (IF j = i \/ i \in Ancestors(doc, j) THEN doc.els[j].text ELSE <<>>)
             \o TextFrom(doc, i, j + 1)

TextContent(doc, i) == TextFrom(doc, i, i)

\* String.trim on a sequence of characters
RECURSIVE TrimStart(_)
TrimStart(s) == IF s # <<>> /\ Head(s) = " " THEN TrimStart(Tail(s)) ELSE s

RECURSIVE TrimEnd(_)
TrimEnd(s) ==
    IF s # <<>> /\ s[Len(s)] = " " THEN TrimEnd(SubSeq(s, 1, Len(s) - 1)) ELSE s

Trim(s) == TrimEnd(TrimStart(s))

\* the opening tag of an element
RECURSIVE AttrTokens(_)
AttrTokens(attrs) ==
    IF attrs = <<>> THEN <<>>
    ELSE <<" ", Head(attrs).name, "=">> \o Head(attrs).value \o AttrTokens(Tail(attrs))

GetTag(el) == <<"<", el.tag>> \o AttrTokens(el.attrs) \o <<">">>

IsHTMLElement(el) == TRUE

\* a message: what it starts with, then the rest
Msg(prefix, text, rest) == <<prefix, text>> \o rest

\* the messages about the elements idx of doc, in order
TagMsgs(doc, idx, prefix, text) ==
    [k \in 1..Len(idx) |-> Msg(prefix, text, GetTag(doc.els[idx[k]]))]

PushAll(page, field, msgs) == [page EXCEPT ![field] = @ \o msgs]

\* new URL(image, page.path).toString() for the image named src
ImageUrl(src, pagePath) == <<pagePath.origin, "/", src>>

\* the image loop without the test of the content type
ImageErrorsStatusOnly(src, pagePath) ==
    IF src \in {"ok", "notimage"} THEN <<>>
    ELSE IF src = "notok"
    THEN << Msg("SEO", ": Image not reachable: ", ImageUrl(src, pagePath)) >>
    ELSE << Msg("SEO", ": Image not reachable: ", <<src, " - ", "fetch failed">>) >>

\* the error the seo check records for the fetch of the image named src;
\* the name of an image tells how its fetch ends
ImageErrors(src, pagePath) ==
    IF src = "ok" THEN <<>>
    ELSE IF src = "notok"
    THEN << Msg("SEO", ": Image not reachable: ", ImageUrl(src, pagePath)) >>
    ELSE IF src = "notimage"
    THEN << Msg("SEO", ": Not an image: ", ImageUrl(src, pagePath)) >>
    ELSE << Msg("SEO", ": Image not reachable: ", <<src, " - ", "fetch failed">>) >>

(***************************************************************************)
(* The checks.  Each takes the options, the document and the page record   *)
(* and gives the page record it leaves.                                    *)
(***************************************************************************)
\* the src of every img[src], in document order
ImgSrcs(doc) ==
    LET idx == QuerySelectorAll(doc, {e \in ElementsOf(doc) : e.tag = "img" /\ HasAttribute(e, "src")})
    IN [k \in 1..Len(idx) |-> GetAttribute(doc.els[idx[k]], "src")[1]]

\* the width of a character of the title, in 64ths of a pixel
CharSize(c) == IF c = "M" THEN 1122 ELSE IF c = "i" THEN 340 ELSE 319

RECURSIVE TitleWidth(_)
TitleWidth(title) ==
    IF title = <<>> THEN 0 ELSE CharSize(Head(title)) + TitleWidth(Tail(title))

overflowTitle(title) == TitleWidth(title) > 550 * 64

HeadingTag(i) == <<"h1", "h2", "h3", "h4", "h5", "h6">>[i]

HeadingTexts(doc, i) ==
    LET idx == QuerySelectorAll(doc, {e \in ElementsOf(doc) : e.tag = HeadingTag(i)})
    IN [k \in 1..Len(idx) |-> TextContent(doc, idx[k])]

\* check/seo.ts; imageErrors is what the image fetches of the loop recorded
SeoCheck(opts, doc, page, imageErrors) ==
    IF ~opts.seo THEN page
    ELSE
    LET hs == [i \in 1..6 |-> HeadingTexts(doc, i)]
        h1 == IF QuerySelectorAll(doc, {e \in ElementsOf(doc) : e.tag = "h1"}) = <<>>
              THEN << Msg("SEO", ": Missing h1", <<>>) >>
              ELSE IF \A i \in 1..6 : Len(hs[i]) = 0
              THEN << Msg("SEO", ": No headings", <<>>) >>
              ELSE <<>>
        many == IF Len(hs[1]) > 1 THEN << Msg("SEO", ": Multiple h1", <<>>) >> ELSE <<>>
        levels == SelectSeq(<<2, 3, 4, 5, 6>>,
                      LAMBDA i : Len(hs[i]) > 0 /\ Len(hs[i - 1]) = 0)
        without == [k \in 1..Len(levels) |->
                       Msg("SEO", ": Heading ",
                           Decimal(levels[k]) \o <<" without heading ">>
                               \o Decimal(levels[k] - 1))]
        title == IF Trim(doc.title) = <<>>
                 THEN << Msg("SEO", ": Missing title", <<>>) >> ELSE <<>>
        long == IF Trim(doc.title) # <<>> /\ overflowTitle(doc.title)
                THEN << Msg("SEO", ": Title too long", <<>>) >> ELSE <<>>
        meta == IF QuerySelectorAll(doc, {e \in ElementsOf(doc) :
                      e.tag = "meta" /\ GetAttribute(e, "name") = <<"description">>}) = <<>>
                THEN << Msg("SEO", ": Missing meta description tag", <<>>) >> ELSE <<>>
        longH1 == SelectSeq(hs[1], LAMBDA h : Max(Len(h), 1) > 12)
        h1Long == [k \in 1..Len(longH1) |-> Msg("SEO", ": H1 too long: ", longH1[k])]
        noHref == QuerySelectorAll(doc, {e \in ElementsOf(doc) : e.tag = "a" /\ ~HasAttribute(e, "href")})
    IN [page EXCEPT
           !.headings = hs,
           !.errors = @ \o h1 \o many \o without \o title \o meta
                        \o TagMsgs(doc, noHref, "SEO", ": Link without href: ")
                        \o imageErrors,
           !.warnings = @ \o long \o h1Long]

\* check/heading-hierarchy.ts
HeadingHierarchyCheck(opts, doc, page) ==
    IF ~opts.seo THEN page
    ELSE
    LET hs == page.headings
        used(i) == Len(hs[i]) > 0
        noParent(i) == used(i) /\ i > 1 /\ ~\E j \in 1..(i - 1) : used(j)
        skips(i) == /\ used(i) /\ i > 2 /\ ~used(i - 1)
                    /\ \E k \in 1..(i - 2) : used(k)
        msgs(i) == (IF noParent(i)
                    THEN << Msg("SEO", ": Heading hierarchy - h",
                                Decimal(i) \o <<" used without any parent heading levels">>) >>
                    ELSE <<>>)
                   \o (IF skips(i)
                       THEN << Msg("SEO", ": Heading hierarchy - h",
                                   Decimal(i) \o <<" skips h">> \o Decimal(i - 1)
                                       \o <<" level">>) >>
                       ELSE <<>>)
    IN PushAll(page, "errors",
               msgs(1) \o msgs(2) \o msgs(3) \o msgs(4) \o msgs(5) \o msgs(6))

\* check/performance.ts
PerformanceCheck(opts, doc, page) ==
    LET t == page.loadingTime
    IN IF t = 0 THEN page
       ELSE [page EXCEPT
                !.errors = IF t > 4000
                           THEN Append(@, Msg("Performance", ": Page load time too slow (",
                                              Decimal(t) \o <<"ms)">>))
                           ELSE @,
                !.warnings = IF t <= 4000 /\ t > 2500
                             THEN Append(@, Msg("Performance",
                                                ": Page load time could be improved (",
                                                Decimal(t) \o <<"ms)">>))
                             ELSE @,
                !.performanceScore = IF t < 1000 THEN "excellent"
                                     ELSE IF t < 2500 THEN "good"
                                     ELSE IF t < 4000 THEN "needs-improvement"
                                     ELSE "poor"]

\* check/social-media.ts
SocialMediaCheck(opts, doc, page) ==
    IF ~opts.socialMedia THEN page
    ELSE
    LET missing == SelectSeq(SocialTags, LAMBDA t :
                       QuerySelectorAll(doc, {e \in ElementsOf(doc) :
                           /\ e.tag = "meta"
                           /\ GetAttribute(e, t.attrs[1].name) = t.attrs[1].value}) = <<>>)
    IN PushAll(page, "errors",
               [k \in 1..Len(missing) |->
                   Msg("SEO", ": Missing ", missing[k].attrs[1].value \o <<" tag">>)])

\* hasAccessibilityContent(element, value)
RECURSIVE hasAccessibilityContent(_, _, _)
hasAccessibilityContent(doc, i, value) ==
    IF Truthy(GetAttribute(doc.els[i], "aria-label")) \/ TextContent(doc, i) # <<>>
    THEN value
    ELSE IF \E c \in Children(doc, i) : hasAccessibilityContent(doc, c, value)
    THEN value
    ELSE FALSE

\* notAriaHidden(element): neither the element nor an ancestor is hidden
notAriaHidden(doc, i) ==
    \A j \in {i} \cup Ancestors(doc, i) :
        GetAttribute(doc.els[j], "aria-hidden") \notin {<<"true">>, <<>>}

\* querySelectorAll followed by filters that need the place of the element
SelectShown(doc, matching) ==
    SelectSeq(QuerySelectorAll(doc, matching), LAMBDA i : notAriaHidden(doc, i))

\* the accessibility check
AccessibilityCheck(opts, doc, page) ==
    IF ~opts.accessibility THEN page
    ELSE
    LET links == SelectSeq(
                     SelectShown(doc, {e \in ElementsOf(doc) :
                         /\ e.tag \in {"a", "button"} \/ GetAttribute(e, "role") = <<"button">>
                         /\ ~HasAttribute(e, "aria-label")
                         /\ IsHTMLElement(e)}),
                     LAMBDA i : hasAccessibilityContent(doc, i, FALSE))
        noAlt == SelectShown(doc, {e \in ElementsOf(doc) : e.tag = "img" /\ ~HasAttribute(e, "alt")})
        noRole == SelectShown(doc, {e \in ElementsOf(doc) :
                      e.tag = "svg" /\ GetAttribute(e, "role") # <<"img">>})
        noLabel == SelectShown(doc, {e \in ElementsOf(doc) :
                       e.tag = "svg" /\ ~HasAttribute(e, "aria-label")})
    IN [page EXCEPT
           !.errors = @ \o TagMsgs(doc, links, "Accessibility", ": Not labelled link/button: ")
                        \o TagMsgs(doc, noAlt, "Accessibility", ": Image without alt: ")
                        \o TagMsgs(doc, noLabel, "Accessibility", ": SVG without aria-label: "),
           !.warnings = @ \o TagMsgs(doc, noRole, "Accessibility", ": SVG without role=img: ")]

validRoles ==
    {"alert", "alertdialog", "application", "article", "banner", "button",
     "cell", "checkbox", "columnheader", "combobox", "complementary",
     "contentinfo", "definition", "dialog", "directory", "document",
     "feed", "figure", "form", "grid", "gridcell", "group", "heading",
     "img", "link", "list", "listbox", "listitem", "log", "main",
     "marquee", "math", "menu", "menubar", "menuitem", "menuitemcheckbox",
     "menuitemradio", "navigation", "none", "note", "option",
     "presentation", "progressbar", "radio", "radiogroup", "region", "row",
     "rowgroup", "rowheader", "scrollbar", "search", "searchbox",
     "separator", "slider", "spinbutton", "status", "switch", "tab",
     "table", "tablist", "tabpanel", "term", "textbox", "timer", "toolbar",
     "tooltip", "tree", "treegrid", "treeitem"}

ariaRequirements ==
    [checkbox |-> <<"aria-checked">>, radio |-> <<"aria-checked">>,
     slider |-> <<"aria-valuenow", "aria-valuemin", "aria-valuemax">>,
     spinbutton |-> <<"aria-valuenow">>, progressbar |-> <<"aria-valuenow">>,
     tab |-> <<"aria-selected">>, option |-> <<"aria-selected">>,
     switch |-> <<"aria-checked">>]

\* element.getAttribute('role') when it is a role with requirements, else ""
RequiringRole(el) ==
    LET role == GetAttribute(el, "role")
    IN IF Truthy(role) /\ Len(role) = 1 /\ role[1] \in DOMAIN ariaRequirements
       THEN role[1] ELSE ""

\* the errors of one element about the attributes its role requires
MissingAttrs(el) ==
    LET role == RequiringRole(el)
        missing == IF role = "" THEN <<>>
                   ELSE SelectSeq(ariaRequirements[role], LAMBDA a : ~HasAttribute(el, a))
    IN [k \in 1..Len(missing) |->
           Msg("Accessibility", ": ARIA role ",
               <<role, " missing required attribute ", missing[k], ": ">> \o GetTag(el))]

\* the aria-roles check, past its flag
AriaRoles(doc, page) ==
    LET withRole == QuerySelectorAll(doc, {e \in ElementsOf(doc) : HasAttribute(e, "role")})
        invalid == SelectSeq(withRole, LAMBDA i :
                       LET role == GetAttribute(doc.els[i], "role")
                       IN Truthy(role) /\ ~(Len(role) = 1 /\ role[1] \in validRoles))
        invalidMsgs == [k \in 1..Len(invalid) |->
                           Msg("Accessibility", ": Invalid ARIA role ",
                               GetAttribute(doc.els[invalid[k]], "role") \o <<": ">>
                                   \o GetTag(doc.els[invalid[k]]))]
        buttonLike == QuerySelectorAll(doc, {e \in ElementsOf(doc) :
                          /\ e.tag \in {"div", "span"} /\ HasAttribute(e, "onclick")
                          /\ ~HasAttribute(e, "role")})
    IN [page EXCEPT
           !.errors = @ \o invalidMsgs
                        \o Flat([k \in 1..Len(withRole) |-> MissingAttrs(doc.els[withRole[k]])]),
           !.warnings = @ \o TagMsgs(doc, buttonLike, "Accessibility",
                                     ": Interactive element should have role=button: ")]

\* mutant of AriaRolesCheck: the flag is not looked at
AriaRolesCheckUnguarded(opts, doc, page) == AriaRoles(doc, page)

\* the aria-roles check
AriaRolesCheck(opts, doc, page) ==
    IF ~opts.accessibility THEN page ELSE AriaRoles(doc, page)

\* document.querySelector('#' + id) finds an element
HasId(doc, id) == \E j \in 1..Len(doc.els) : GetAttribute(doc.els[j], "id") = id

\* the form-labels check
FormLabelsCheck(opts, doc, page) ==
    IF ~opts.accessibility THEN page
    ELSE
    LET hasLabel(i) ==
            LET input == doc.els[i]
                id == GetAttribute(input, "id")
                ariaLabelledby == GetAttribute(input, "aria-labelledby")
            IN \/ Truthy(GetAttribute(input, "aria-label"))
               \/ Truthy(ariaLabelledby) /\ HasId(doc, ariaLabelledby)
               \/ /\ Truthy(id)
                  /\ \E j \in 1..Len(doc.els) :
                        doc.els[j].tag = "label" /\ GetAttribute(doc.els[j], "for") = id
               \/ \E j \in {i} \cup Ancestors(doc, i) : doc.els[j].tag = "label"
        inputs == QuerySelectorAll(doc, {e \in ElementsOf(doc) :
                      \/ /\ e.tag = "input"
                         /\ GetAttribute(e, "type") \in
                                {<<"text">>, <<"email">>, <<"password">>, <<"tel">>,
                                 <<"url">>, <<"search">>}
                      \/ e.tag \in {"textarea", "select"}})
        unlabelled == SelectSeq(inputs, LAMBDA i : ~hasLabel(i))
        dangling == QuerySelectorAll(doc, {e \in ElementsOf(doc) :
                        /\ e.tag = "label" /\ HasAttribute(e, "for")
                        /\ Truthy(GetAttribute(e, "for"))
                        /\ ~HasId(doc, GetAttribute(e, "for"))})
    IN PushAll(page, "errors",
               TagMsgs(doc, unlabelled, "Accessibility", ": Form input without label: ")
               \o TagMsgs(doc, dangling, "Accessibility",
                          ": Label references non-existent input: "))

(***************************************************************************)
(* The registry: the checks by file name, run in the order in which        *)
(* readdir listed the files.                                               *)
(***************************************************************************)
Alphabetical ==
    <<"accessibility", "aria-roles", "form-labels", "heading-hierarchy",
      "performance", "seo", "social-media">>

Reverse(s) == [k \in 1..Len(s) |-> s[Len(s) + 1 - k]]

SeoFirst ==
    <<"seo", "accessibility", "aria-roles", "form-labels", "heading-hierarchy",
      "performance", "social-media">>

Orders == {Alphabetical, Reverse(Alphabetical), SeoFirst}

\* method(options, document, page) of the check registered under name
Method(name, opts, doc, page, imageErrors) ==
    CASE name = "accessibility" -> AccessibilityCheck(opts, doc, page)
      [] name = "aria-roles" -> AriaRolesCheck(opts, doc, page)
      [] name = "form-labels" -> FormLabelsCheck(opts, doc, page)
      [] name = "heading-hierarchy" -> HeadingHierarchyCheck(opts, doc, page)
      [] name = "performance" -> PerformanceCheck(opts, doc, page)
      [] name = "seo" -> SeoCheck(opts, doc, page, imageErrors)
      [] name = "social-media" -> SocialMediaCheck(opts, doc, page)

\* for (const method of Object.values(methods)) await method(...); the page
\* a method is given is the page p that the methods before it have left
RECURSIVE RunChecks(_, _, _, _, _)
RunChecks(order, opts, doc, page, imageErrors) ==
    IF order = <<>> THEN page
    ELSE CHOOSE last \in
             {RunChecks(Tail(order), opts, doc,
                        Method(Head(order), opts, doc, p, imageErrors), imageErrors) :
                 p \in {page}} : TRUE

\* what the image fetches of the seo check record, all images fetched
RECURSIVE AllImageErrors(_, _)
AllImageErrors(srcs, pagePath) ==
    IF srcs = <<>> THEN <<>>
    ELSE ImageErrors(Head(srcs), pagePath) \o AllImageErrors(Tail(srcs), pagePath)

\* the document of a path of the site: its body, its anchors, its images
PageDoc(s, p) ==
    Doc(s.title[p],
        s.body[p] \o [k \in 1..Len(s.links[p]) |-> Anchor(s.links[p][k])]
                  \o [k \in 1..Len(s.imgs[p]) |-> Image(s.imgs[p][k])])

NoOutput == [kind |-> "none"]
NoCall == [fn |-> "none"]

\* the keys in insertion order after pages[key] = rec
PutOrder(order, store, key) ==
    IF key \in DOMAIN store THEN order ELSE Append(order, key)

\* mutant of Outcome: the status is looked at before the content type
OutcomeStatusFirst(m, r) ==
    IF r.throws THEN "reject"
    ELSE IF ~Ok(r) THEN "error"
    ELSE IF m = "check" /\ ~Includes(r.ctype, "text/html") THEN "ignore"
    ELSE "ok"

\* mutant of Outcome: a failed page is handled like any other page
OutcomeNoError(m, r) ==
    IF r.throws THEN "reject"
    ELSE IF m = "check" /\ ~Includes(r.ctype, "text/html") THEN "ignore"
    ELSE "ok"

\* what checkPath does with the response of its page fetch
Outcome(m, r) ==
    IF r.throws THEN "reject"
    ELSE IF m = "check" /\ ~Includes(r.ctype, "text/html") THEN "ignore"
    ELSE IF ~Ok(r) THEN "error"
    ELSE "ok"

\* the option flags; the command line's defaults
Flags == [seo : BOOLEAN, accessibility : BOOLEAN, socialMedia : BOOLEAN]
DefaultFlags == [seo |-> TRUE, accessibility |-> TRUE, socialMedia |-> FALSE]

\* a site whose root page has the body and the response time given
WithRoot(s, doc, time) ==
    [s EXCEPT !.title[Root] = doc.title, !.body[Root] = doc.els, !.time[Root] = time]

BodySites ==
    {WithRoot(SiteAbout, d, t) :
        d \in {DocSkip, DocOnlyH3, DocHidden, DocSocial, DocTwice,
               Doc(PlainTitle, <<H1, El("img", <<At("src", <<"notok">>)>>, <<>>)>>)},
        t \in {0, 3000, 4001}}

\* the runs: every site with the default flags, and the sites with a body
\* under every combination of flags and two registration orders
Scenarios ==
    [max : Limits, flags : {DefaultFlags}, methods : {Alphabetical}, site : Sites]
    \cup [max : {1, 2}, flags : Flags, methods : {Alphabetical, SeoFirst},
          site : BodySites]

(***************************************************************************)
(* The state after construction                                            *)
(***************************************************************************)
Init ==
    /\ mode \in {"check", "sitemap"}
    /\ baseUrl \in BaseUrls
    /\ \E sc \in Scenarios :
          /\ options = [max |-> sc.max, seo |-> sc.flags.seo,
                        accessibility |-> sc.flags.accessibility,
                        socialMedia |-> sc.flags.socialMedia]
          /\ methods = sc.methods
          /\ site = sc.site
    /\ pc = "start"
    /\ pagesToCheck = <<>>
    /\ pages = [p \in {} |-> 0]
    /\ workers = <<>>
    /\ batchNo = 0
    /\ fetchCount = [p \in Paths |-> 0]
    /\ keyOrder = <<>>
    /\ out = NoOutput
    /\ call = NoCall

\* mutant of TestUrlExits: a base URL that cannot be fetched is let through
TestUrlExitsInvalidOnly(base, s) == ~ValidUrl(base)

\* testUrl: whether the process exits before the crawl
TestUrlExits(base, s) == ~ValidUrl(base) \/ s.resp[Root].throws

(***************************************************************************)
(* The command's action up to the crawl: the checker tests the base URL    *)
(* and exits with status 1 when it is invalid or its fetch throws; then    *)
(* checkAllPages sets up the frontier.  generateSitemap starts the crawl   *)
(* at once.                                                                *)
(***************************************************************************)
Start ==
    /\ pc = "start"
    /\ IF mode = "check" /\ TestUrlExits(baseUrl, site)
       THEN /\ pc' = "exit1"
            /\ pagesToCheck' = pagesToCheck
       ELSE /\ pc' = "loop"
            /\ pagesToCheck' = <<Seed(mode)>>
    /\ UNCHANGED <<mode, baseUrl, options, methods, site, pages, workers, batchNo,
                   fetchCount, keyOrder, out, call>>

(***************************************************************************)
(* checkAllPages: one loop iteration starts.  The batch is spliced off the *)
(* frontier and checkPath is called on every entry; each call runs to its  *)
(* first await (the fetch) before the next one starts.                     *)
(***************************************************************************)
Dispatch ==
    /\ pc = "loop"
    /\ pagesToCheck # <<>>
    /\ batchNo < MaxBatches
    /\ LET batch == SpliceTaken(pagesToCheck, BatchSize(options.max))
           skip(i) == ShouldSkip(mode, batch[i].path, pages)
           \* new URL(path, baseUrl) throws on an invalid base: the call rejects
           st(i) == IF skip(i) THEN "done"
                    ELSE IF ~ValidUrl(baseUrl) THEN "rejected" ELSE "fetch"
       IN /\ workers' = [i \in 1..Len(batch) |->
                            [entry |-> batch[i], st |-> st(i),
                             img |-> 0, errors |-> <<>>, result |-> <<>>]]
          /\ pagesToCheck' = SpliceLeft(pagesToCheck, BatchSize(options.max))
          /\ fetchCount' = [p \in Paths |-> fetchCount[p] +
                 Cardinality({i \in 1..Len(batch) : batch[i].path = p /\ st(i) = "fetch"})]
          /\ pc' = IF \E i \in 1..Len(batch) : st(i) = "rejected"
                   THEN "failed" ELSE "await"
    /\ batchNo' = batchNo + 1
    /\ UNCHANGED <<mode, baseUrl, options, methods, site, pages, keyOrder, out, call>>

\* the rest of checkPath once nothing is left to await: the record is stored
\* and the links are extracted
Complete(i, imageErrors) ==
    LET w == workers[i]
        doc == PageDoc(site, w.entry.path)
        blank == PageRecord(mode, baseUrl, w.entry, <<>>, FALSE, site.time[w.entry.path])
    IN \E page \in {IF mode = "check"
                     THEN RunChecks(methods, options, doc,
                                    [blank EXCEPT !.title = Trim(doc.title)], imageErrors)
                     ELSE blank} :
          /\ pages' = Put(pages, w.entry.path, page)
          /\ keyOrder' = PutOrder(keyOrder, pages, w.entry.path)
          /\ workers' = [workers EXCEPT ![i] =
                 [@ EXCEPT !.st = "done", !.img = 0, !.errors = imageErrors,
                           !.result = ExtractLinks(mode, baseUrl, w.entry,
                                          site.links[w.entry.path],
                                          Put(pages, w.entry.path, page), batchNo, i)]]
          /\ pc' = pc

\* the page fetch of worker i resolves or rejects
FetchDone(i) ==
    /\ pc = "await"
    /\ workers[i].st = "fetch"
    /\ LET w == workers[i]
           r == site.resp[w.entry.path]
           o == Outcome(mode, r)
       IN IF o = "reject"
          THEN /\ workers' = [workers EXCEPT ![i].st = "rejected"]
               /\ pc' = "failed"
               /\ UNCHANGED <<pages, keyOrder>>
          ELSE IF o = "ignore"
          THEN /\ workers' = [workers EXCEPT ![i].st = "done"]
               /\ UNCHANGED <<pc, pages, keyOrder>>
          ELSE IF o = "error"
          THEN /\ pages' = Put(pages, w.entry.path,
                      PageRecord(mode, baseUrl, w.entry,
                                 << HttpError(r.status) >>, TRUE,
                                 site.time[w.entry.path]))
               /\ keyOrder' = PutOrder(keyOrder, pages, w.entry.path)
               /\ workers' = [workers EXCEPT ![i] =
                      [@ EXCEPT !.st = "done", !.errors = << HttpError(r.status) >>]]
               /\ pc' = pc
          ELSE IF /\ mode = "check" /\ options.seo
                  /\ ImgSrcs(PageDoc(site, w.entry.path)) # <<>>
          THEN /\ workers' = [workers EXCEPT ![i] = [@ EXCEPT !.st = "image", !.img = 1]]
               /\ UNCHANGED <<pc, pages, keyOrder>>
          ELSE Complete(i, <<>>)
    /\ UNCHANGED <<mode, baseUrl, options, methods, site, pagesToCheck, batchNo, fetchCount,
                   out, call>>

\* an image fetch of the seo check of worker i resolves or rejects
ImageDone(i) ==
    /\ pc = "await"
    /\ workers[i].st = "image"
    /\ LET w == workers[i]
           imgs == ImgSrcs(PageDoc(site, w.entry.path))
           errors == w.errors
                       \o ImageErrors(imgs[w.img], UrlOfPath(w.entry.path, baseUrl))
       IN IF w.img < Len(imgs)
          THEN /\ workers' = [workers EXCEPT ![i] =
                      [@ EXCEPT !.img = w.img + 1, !.errors = errors]]
               /\ UNCHANGED <<pc, pages, keyOrder>>
          ELSE Complete(i, errors)
    /\ UNCHANGED <<mode, baseUrl, options, methods, site, pagesToCheck, batchNo, fetchCount,
                   out, call>>

\* Promise.all resolves: the results are pushed and the frontier deduplicated
BatchEnd ==
    /\ pc = "await"
    /\ AllSettled(workers)
    /\ pagesToCheck' =
          Dedupe(pagesToCheck \o Flat([i \in 1..Len(workers) |-> workers[i].result]))
    /\ workers' = <<>>
    /\ pc' = "loop"
    /\ UNCHANGED <<mode, baseUrl, options, methods, site, pages, batchNo, fetchCount,
                   keyOrder, out, call>>

\* the loop ends: checkAllPages returns the store
Return ==
    /\ pc = "loop"
    /\ pagesToCheck = <<>>
    /\ pc' = "done"
    /\ UNCHANGED <<mode, baseUrl, options, methods, site, pagesToCheck, pages, workers,
                   batchNo, fetchCount, keyOrder, out, call>>

(***************************************************************************)
(* The checker's report                                                    *)
(***************************************************************************)
\* Object.values(pages)
Values(store, order) == [k \in 1..Len(order) |-> store[order[k]]]

\* mutant of Unique: every occurrence is kept
UniqueKeepsAll(store, order, field) ==
    Flat([k \in 1..Len(order) |-> store[order[k]][field]])

\* Array.from(new Set(Object.values(pages).reduce(concat))) for errors or warnings
Unique(store, order, field) ==
    Dedupe(Flat([k \in 1..Len(order) |-> store[order[k]][field]]))

\* Object.values(pages).reduce((total, page) => total + page[field].length, 0)
RECURSIVE Total(_, _, _)
Total(store, order, field) ==
    IF order = <<>> THEN 0
    ELSE Len(store[Head(order)][field]) + Total(store, Tail(order), field)

\* checkAvailable(new URL(name, baseUrl)) rejects
ProbeThrows(s) == s.resp[PR].throws \/ s.resp[PS].throws

\* the rest of the checker's action: the global lists, the probes of
\* robots.txt and sitemap.xml, the totals and pages.json
Report ==
    /\ pc = "done"
    /\ mode = "check"
    /\ IF ProbeThrows(site)
       THEN /\ pc' = "failed"
            /\ out' = out
       ELSE /\ pc' = "reported"
            /\ out' = [kind |-> "report",
                       pages |-> pages,
                       errors |-> Unique(pages, keyOrder, "errors"),
                       warnings |-> Unique(pages, keyOrder, "warnings"),
                       totalErrors |-> Total(pages, keyOrder, "errors"),
                       totalWarnings |-> Total(pages, keyOrder, "warnings")]
    /\ UNCHANGED <<mode, baseUrl, options, methods, site, pagesToCheck, pages, workers,
                   batchNo, fetchCount, keyOrder, call>>

(***************************************************************************)
(* The sitemap                                                             *)
(***************************************************************************)
\* url.toString()
UrlText(url) ==
    <<url.origin>> \o url.pathname \o (IF url.search = "" THEN <<>> ELSE <<url.search>>)

\* the replacement without the case of the ampersand
escapeXmlNoAmp(unsafe) ==
    [k \in 1..Len(unsafe) |->
        CASE unsafe[k] = "<" -> "&lt;"
          [] unsafe[k] = ">" -> "&gt;"
          [] unsafe[k] = "'" -> "&apos;"
          [] unsafe[k] = "\"" -> "&quot;"
          [] OTHER -> unsafe[k]]

escapeXml(unsafe) ==
    [k \in 1..Len(unsafe) |->
        CASE unsafe[k] = "<" -> "&lt;"
          [] unsafe[k] = ">" -> "&gt;"
          [] unsafe[k] = "&" -> "&amp;"
          [] unsafe[k] = "'" -> "&apos;"
          [] unsafe[k] = "\"" -> "&quot;"
          [] OTHER -> unsafe[k]]

\* 100 * 0.8 ** k, exactly: q + r / p with 0 <= r < p = 5 ** k
RECURSIVE Scaled(_)
Scaled(k) ==
    IF k = 0 THEN [q |-> 100, r |-> 0, p |-> 1]
    ELSE LET s == Scaled(k - 1)
             n == ((4 * s.q) % 5) * s.p + 4 * s.r
         IN [q |-> (4 * s.q) \div 5 + n \div (5 * s.p),
             r |-> n % (5 * s.p),
             p |-> 5 * s.p]

\* mutant of MathRound: the fraction is dropped
MathFloor(x) == x.q

\* Math.round
MathRound(x) == x.q + (IF 2 * x.r >= x.p THEN 1 ELSE 0)

\* round(0.8 ** (depth - 1), 2), in hundredths
RoundedPriority(depth) == MathRound(Scaled(depth - 1))

\* toFixed(2) of a number of hundredths
ToFixed2(h) ==
    Decimal(h \div 100) \o <<".">> \o Decimal((h \div 10) % 10) \o Decimal(h % 10)

getPriority(depth) == ToFixed2(RoundedPriority(depth))

\* mutant of Listed: the failed pages are listed too
ListedAll(store, order) == order

\* Object.values(pages).filter(page => !page.error): the keys of those pages
Listed(store, order) == SelectSeq(order, LAMBDA k : ~store[k].error)

\* the <url> elements of the sitemap; lastmod is the time of rendering
UrlEntries(store, order) ==
    LET keys == Listed(store, order)
    IN [k \in 1..Len(keys) |->
           [loc |-> escapeXml(UrlText(store[keys[k]].path)),
            priority |-> getPriority(store[keys[k]].depth),
            changefreq |-> "daily"]]

\* the rest of generateSitemap
Render ==
    /\ pc = "done"
    /\ mode = "sitemap"
    /\ pc' = "rendered"
    /\ out' = [kind |-> "sitemap", urls |-> UrlEntries(pages, keyOrder)]
    /\ UNCHANGED <<mode, baseUrl, options, methods, site, pagesToCheck, pages, workers,
                   batchNo, fetchCount, keyOrder, call>>

Next ==
    \/ Start
    \/ Dispatch
    \/ \E i \in 1..Len(workers) : FetchDone(i)
    \/ \E i \in 1..Len(workers) : ImageDone(i)
    \/ BatchEnd
    \/ Return
    \/ Report
    \/ Render

Spec == Init /\ [][Next]_vars

(***************************************************************************)
(* Single calls of the functions of the program, on inputs drawn from      *)
(* bounded sets                                                            *)
(***************************************************************************)
PureInit ==
    /\ mode = "check"
    /\ baseUrl = SiteOrigin
    /\ options = [max |-> 1, seo |-> TRUE, accessibility |-> TRUE, socialMedia |-> FALSE]
    /\ methods = Alphabetical
    /\ site = SiteAbout
    /\ pc = "call"
    /\ pagesToCheck = <<>>
    /\ pages = [p \in {} |-> 0]
    /\ workers = <<>>
    /\ batchNo = 0
    /\ fetchCount = [p \in Paths |-> 0]
    /\ keyOrder = <<>>
    /\ out = NoOutput
    /\ call = NoCall

\* the part of checkPath between the fetch of an HTML page that succeeded
\* and pages[path] = page, every image fetched
CheckedPage(order, opts, doc, base, path, time) ==
    RunChecks(order, opts, doc,
              [PageRecord("check", base, [path |-> path], <<>>, FALSE, time)
                   EXCEPT !.title = Trim(doc.title)],
              AllImageErrors(ImgSrcs(doc), UrlOfPath(path, base)))

CallChecks ==
    /\ pc = "call"
    /\ call = NoCall
    /\ \E doc \in Docs, flags \in Flags, order \in Orders :
          call' = [fn |-> "checks", doc |-> doc, opts |-> flags, order |-> order,
                   page |-> CheckedPage(order, flags, doc, SiteOrigin, Root, 500)]
    /\ UNCHANGED <<mode, baseUrl, options, methods, site, pc, pagesToCheck, pages,
                   workers, batchNo, fetchCount, keyOrder, out>>

CallPriority ==
    /\ pc = "call"
    /\ call = NoCall
    /\ \E depth \in 1..MaxDepth :
          call' = [fn |-> "getPriority", depth |-> depth, result |-> getPriority(depth)]
    /\ UNCHANGED <<mode, baseUrl, options, methods, site, pc, pagesToCheck, pages,
                   workers, batchNo, fetchCount, keyOrder, out>>

\* the hrefs of the anchors of a document, and stores to extract against
HrefPool == {Rel(Root), Rel(PA), Rel(PB), RelQ(PA), Abs(PA), Ext(PA)}
HrefSeqs ==
    {<<>>} \cup {<<h>> : h \in HrefPool} \cup (HrefPool \X HrefPool)
    \cup (HrefPool \X HrefPool \X HrefPool)

StoreOf(m, base, keys) ==
    [k \in keys |-> PageRecord(m, base, [path |-> k, depth |-> 1], <<>>, FALSE, 500)]

CallExtract ==
    /\ pc = "call"
    /\ call = NoCall
    /\ \E m \in {"check", "sitemap"}, base \in {"https://site", "https://site/"},
          hrefs \in HrefSeqs, keys \in {{}, {Root}, {Root, PA}} :
          call' = [fn |-> "links", mode |-> m, base |-> base, hrefs |-> hrefs,
                   store |-> StoreOf(m, base, keys),
                   result |-> ExtractLinks(m, base, Seed(m), hrefs,
                                           StoreOf(m, base, keys), 1, 1)]
    /\ UNCHANGED <<mode, baseUrl, options, methods, site, pc, pagesToCheck, pages,
                   workers, batchNo, fetchCount, keyOrder, out>>

\* the performance check on a page that took time to load
CallPerformance ==
    /\ pc = "call"
    /\ call = NoCall
    /\ \E time \in Times, flags \in Flags :
          call' = [fn |-> "performance", time |-> time, opts |-> flags,
                   page |-> PerformanceCheck(flags, Doc(PlainTitle, PlainBody),
                                PageRecord("check", SiteOrigin, [path |-> Root],
                                           <<>>, FALSE, time))]
    /\ UNCHANGED <<mode, baseUrl, options, methods, site, pc, pagesToCheck, pages,
                   workers, batchNo, fetchCount, keyOrder, out>>

\* the characters of the strings given to escapeXml, one token each
XmlChars == {"<", ">", "&", "'", "\"", "a", ";", "/"}
MaxText == 3
LongTexts ==
    {<<"/", "a", "<", "a", ">", "&", "'", "\"", ";">>,
     <<"&", "a", ";", "&", "&", "<", "<", "/", "a", ">">>}
XmlTexts == UNION {[1..n -> XmlChars] : n \in 0..MaxText} \cup LongTexts

\* escapeXml on a string
CallEscape ==
    /\ pc = "call"
    /\ call = NoCall
    /\ \E unsafe \in XmlTexts :
          call' = [fn |-> "escapeXml", unsafe |-> unsafe, result |-> escapeXml(unsafe)]
    /\ UNCHANGED <<mode, baseUrl, options, methods, site, pc, pagesToCheck, pages,
                   workers, batchNo, fetchCount, keyOrder, out>>

PureNext ==
    \/ CallChecks
    \/ CallPriority
    \/ CallExtract
    \/ CallPerformance
    \/ CallEscape

PureSpec == PureInit /\ [][PureNext]_vars

\* the runs on the sites where every fetch resolves: every fetch in flight
\* settles in the end and the loop runs on
LiveSites ==
    {[s EXCEPT !.resp[p] = r] : s \in BaseSites, p \in {PA, PF},
                                r \in {Html200, Html404, Bin200}}

LiveInit == Init /\ site \in LiveSites /\ ValidUrl(baseUrl)

LiveSpec == LiveInit /\ [][Next]_vars /\ WF_vars(Next)

(***************************************************************************)
(* Properties of the crawl                                                 *)
(***************************************************************************)
Limit == IF options.max > 1 THEN options.max ELSE 1
Frontier == pagesToCheck
Keys == DOMAIN pages
AtLoopStart == pc = "loop"

\* the hrefs of page p that point into the crawled origin, as paths
SameOriginTargets(s, p) ==
    {s.links[p][i].pathname : i \in {j \in 1..Len(s.links[p]) :
        s.links[p][j].host \in {"", SiteOrigin}}}

\* C1: in the checker crawl the page fetch of every path is issued at most
\* once over the whole run.
C1_NoRevisit == mode = "check" => \A p \in Paths : fetchCount[p] <= 1

\* C2: the number of fetches in flight (page fetches and the image fetches of
\* the seo check) never exceeds max(n, 1), n the concurrency limit.
C2_InFlightBound ==
    Cardinality({i \in 1..Len(workers) : workers[i].st \in {"fetch", "image"}}) <= Limit

C2_Witness ==
    /\ mode = "check" /\ options.max = 2 /\ site = SiteFive
    /\ Cardinality({i \in 1..Len(workers) : workers[i].st \in {"fetch", "image"}}) = 2
    /\ \E i \in 1..Len(workers) : workers[i].st = "image"
    /\ Len(pagesToCheck) = 3

\* C3: a batch boundary is a barrier: the frontier is not appended to, the
\* loop does not go on and no next batch is dispatched while a worker of the
\* current batch has not completed.
C3_Barrier ==
    [][(pagesToCheck' # pagesToCheck \/ batchNo' # batchNo \/ (pc = "await" /\ pc' = "loop"))
          => \A i \in 1..Len(workers) : workers[i].st = "done"]_vars

C3_Witness ==
    /\ pc = "await"
    /\ \E i, j \in 1..Len(workers) :
          /\ workers[i].st = "done" /\ workers[i].result # <<>>
          /\ workers[j].st = "fetch"
    /\ pagesToCheck # <<>>

\* C4: at the start of every loop iteration, in both crawls, no path occurs
\* twice in the frontier.
C4_FrontierDistinct ==
    AtLoopStart => \A i, j \in 1..Len(Frontier) :
                      i # j => Frontier[i].path # Frontier[j].path

\* C5: at the start of every loop iteration of the checker crawl no path of the
\* frontier is a key of the store.
C5_FrontierNotInStore ==
    (mode = "check" /\ AtLoopStart) => \A i \in 1..Len(Frontier) : Frontier[i].path \notin Keys

\* C6: in the sitemap crawl the depth of a stored record never changes.
C6_DepthSetOnce ==
    [][mode = "sitemap" => \A p \in Keys : pages'[p].depth = pages[p].depth]_vars

\* the paths within d links of the seed, through pages fetched with success
RECURSIVE Within(_, _)
Within(s, d) ==
    IF d = 0 THEN {Root}
    ELSE LET near == Within(s, d - 1)
         IN near \cup UNION {SameOriginTargets(s, p) : p \in {q \in near : Ok(s.resp[q])}}

Distance(s, p) ==
    CHOOSE d \in 0..Cardinality(Paths) :
        /\ p \in Within(s, d)
        /\ \A e \in 0..(d - 1) : p \notin Within(s, e)

\* C7: when the sitemap crawl ends, the depth of every record is 1 plus the
\* length of the shortest chain of links from the seed to its page.
C7_DepthIsShortest ==
    (mode = "sitemap" /\ pc = "done") =>
        \A p \in Keys : pages[p].depth = 1 + Distance(site, p)

\* C8: in the final store of the sitemap crawl the seed has depth 1, every
\* depth is at least 1, and every other record is one deeper than a record
\* without error, in the store, whose page links to it.
C8_DepthOfParent ==
    (mode = "sitemap" /\ pc = "done") =>
        /\ Root \in Keys => pages[Root].depth = 1
        /\ \A p \in Keys : pages[p].depth >= 1
        /\ \A p \in Keys \ {Root} :
              \E q \in Keys : /\ ~pages[q].error
                              /\ p \in SameOriginTargets(site, q)
                              /\ pages[p].depth = pages[q].depth + 1

\* C9: on a finite site where every fetch resolves, the crawl loop reaches an
\* empty frontier and returns the store, for every concurrency limit.
C9_Terminates == <>(pc = "done")

C9_Witness ==
    /\ pc = "done" /\ options.max < 1 /\ mode = "sitemap"
    /\ Cardinality(Keys) >= 4
    /\ batchNo >= 4

\* the paths the skip rule of the checker excludes
Excluded(p) ==
    \/ (Len(p) > 0 /\ p[1] = "http")
    \/ (Len(p) > 0 /\ p[Len(p)] \in {"sitemap.xml", "robots.txt"})

IsHtml(r) == ~r.throws /\ \E i \in 1..Len(r.ctype) : r.ctype[i] = "text/html"

\* the paths reachable from the seed over same-origin links of HTML pages
\* fetched with success
RECURSIVE Reachable(_, _)
Reachable(s, d) ==
    IF d = 0 THEN {Root}
    ELSE LET near == Reachable(s, d - 1)
         IN near \cup UNION {SameOriginTargets(s, p) :
                p \in {q \in near : IsHtml(s.resp[q]) /\ Ok(s.resp[q]) /\ ~Excluded(q)}}

\* C10: when the checker crawl, started with an origin as base URL, ends, the
\* keys of the store are the reachable paths that answered with HTML and are
\* not excluded by the skip rule.
C10_StoreKeys ==
    (mode = "check" /\ pc = "done" /\ baseUrl = SiteOrigin) =>
        Keys = {p \in Reachable(site, Cardinality(Paths)) :
                   IsHtml(site.resp[p]) /\ ~Excluded(p)}

C10_Witness ==
    /\ mode = "check" /\ pc = "done" /\ baseUrl = SiteOrigin
    /\ site = SiteAbout
    /\ Keys = {Root, PA}

\* the cap on the number of batches is never what stops a crawl
CapNotReached == (pc = "loop" /\ pagesToCheck # <<>>) => batchNo < MaxBatches

(***************************************************************************)
(* Failed pages, other resources and failures                              *)
(***************************************************************************)
\* worker i leaves its page fetch in this step, the fetch having resolved
FetchResolves(i) ==
    /\ pc = "await"
    /\ i \in DOMAIN workers /\ workers[i].st = "fetch"
    /\ i \in DOMAIN workers' /\ workers'[i].st # "fetch"
    /\ ~site.resp[workers[i].entry.path].throws

\* the record of a failed page: the one error, nothing else, nothing that a
\* check leaves behind
IsErrorRecord(rec, status) ==
    /\ rec.errors = << <<"HTTP error", ": ">> \o Decimal(status) >>
    /\ rec.warnings = <<>>
    /\ rec.title = <<>>
    /\ \A h \in 1..6 : rec.headings[h] = <<>>
    /\ rec.performanceScore = "undefined"

\* what C11 asks of worker i after its step
ErrorRecorded(i) ==
    LET path == workers[i].entry.path
    IN /\ workers'[i].st = "done"
       /\ workers'[i].result = <<>>
       /\ path \in DOMAIN pages'
       /\ IsErrorRecord(pages'[path], site.resp[path].status)

\* C11 as stated: in the checker crawl every dispatched page whose response
\* has a non-success status ends with the error record in the store, and its
\* worker returns no links.
C11_AnyFailedPage ==
    [][\A i \in 1..Len(workers) :
          (mode = "check" /\ FetchResolves(i) /\ ~Ok(site.resp[workers[i].entry.path]))
              => ErrorRecorded(i)]_vars

\* C11, amended: in the checker crawl every dispatched page whose response
\* has a non-success status and a content type that includes text/html ends
\* with a record whose errors are exactly the one HTTP error, whose warnings,
\* title and six heading lists are empty and that no check has touched, and
\* its worker returns no links.
C11_FailedHtmlPage ==
    [][\A i \in 1..Len(workers) :
          (/\ mode = "check" /\ FetchResolves(i)
           /\ ~Ok(site.resp[workers[i].entry.path])
           /\ Includes(site.resp[workers[i].entry.path].ctype, "text/html"))
              => ErrorRecorded(i)]_vars

C11_Witness ==
    /\ mode = "check" /\ pc = "await"
    /\ \E i \in 1..Len(workers) :
          /\ workers[i].st = "done" /\ workers[i].result = <<>>
          /\ site.resp[workers[i].entry.path] = Html404
          /\ workers[i].entry.path \in DOMAIN pages
          /\ IsErrorRecord(pages[workers[i].entry.path], 404)
          /\ site.links[workers[i].entry.path] # <<>>

\* C12: in the checker crawl a dispatched path whose response has a content
\* type that does not include text/html, whatever its status, leaves the
\* store unchanged, has no record under its path and gives the frontier no
\* links.
C12_NonHtmlIgnored ==
    [][\A i \in 1..Len(workers) :
          (/\ mode = "check" /\ FetchResolves(i)
           /\ ~Includes(site.resp[workers[i].entry.path].ctype, "text/html"))
              => /\ pages' = pages
                 /\ workers[i].entry.path \notin DOMAIN pages'
                 /\ workers'[i].st = "done"
                 /\ workers'[i].result = <<>>]_vars

C12_Witness ==
    /\ mode = "check" /\ pc = "await"
    /\ \E i \in 1..Len(workers) :
          /\ workers[i].st = "done" /\ workers[i].result = <<>>
          /\ site.resp[workers[i].entry.path] = Bin404
          /\ fetchCount[workers[i].entry.path] > 0
          /\ workers[i].entry.path \notin DOMAIN pages

\* C13: a worker whose fetch throws does not abort the batch: the crawl has
\* not failed, so that its siblings can still write their records and hand
\* over their links, and later batches can run.
C13_FailureIsolated ==
    \A i \in 1..Len(workers) : workers[i].st = "rejected" => pc # "failed"

\* C14: in the checker, when the base URL is invalid or its fetch throws, the
\* process exits with status 1 before the crawl: no worker is dispatched, no
\* page is fetched, no record is written and no report is produced.
C14_ExitBeforeCrawl ==
    (mode = "check" /\ (~ValidUrl(baseUrl) \/ site.resp[Root].throws)) =>
        /\ pc \in {"start", "exit1"}
        /\ workers = <<>> /\ batchNo = 0
        /\ \A p \in Paths : fetchCount[p] = 0
        /\ pages = [p \in {} |-> 0]
        /\ out = NoOutput

C14_Witness ==
    /\ mode = "check" /\ pc = "exit1"
    /\ ValidUrl(baseUrl) /\ site.resp[Root].throws

(***************************************************************************)
(* The checks and their flags                                              *)
(***************************************************************************)
Prefixed(msgs, prefix) == SelectSeq(msgs, LAMBDA m : StartsWith(m, prefix))

\* the page of the call in the state, had accessibility been enabled
WithAccessibility ==
    CheckedPage(call.order, [call.opts EXCEPT !.accessibility = TRUE], call.doc,
                SiteOrigin, Root, 500)

\* C15: for every document, the registered checks run with accessibility
\* disabled leave no error or warning that starts with "Accessibility", and
\* the errors and warnings that start with "SEO" are those of the run with
\* accessibility enabled on the same document.
C15_AccessibilityOff ==
    (call.fn = "checks" /\ ~call.opts.accessibility) =>
        /\ Prefixed(call.page.errors, "Accessibility") = <<>>
        /\ Prefixed(call.page.warnings, "Accessibility") = <<>>
        /\ Prefixed(call.page.errors, "SEO") = Prefixed(WithAccessibility.errors, "SEO")
        /\ Prefixed(call.page.warnings, "SEO") = Prefixed(WithAccessibility.warnings, "SEO")

C15_Witness ==
    /\ call.fn = "checks" /\ ~call.opts.accessibility /\ call.opts.seo
    /\ call.doc = Doc(PlainTitle, <<El("svg", <<>>, <<>>), El("a", <<>>, <<>>)>>)
    /\ Prefixed(call.page.errors, "SEO") # <<>>
    /\ Prefixed(WithAccessibility.errors, "Accessibility") # <<>>
    /\ Prefixed(WithAccessibility.warnings, "Accessibility") # <<>>

(***************************************************************************)
(* The sitemap                                                             *)
(***************************************************************************)
DigitValue(c) == CHOOSE d \in 0..9 : Decimal(d) = <<c>>

\* the hundredths that a priority as written stands for
Hundredths(text) ==
    100 * DigitValue(text[1]) + 10 * DigitValue(text[3]) + DigitValue(text[4])

\* h is the whole number nearest to x = q + r / p, the half rounded up
Nearest(h, x) ==
    /\ (2 * (h - x.q) - 1) * x.p <= 2 * x.r
    /\ 2 * x.r < (2 * (h - x.q) + 1) * x.p

\* C16: the priority of a page is 0.8 ^ (depth - 1) rounded to two decimals:
\* 1.00, 0.80 and 0.64 for the depths 1, 2 and 3; it lies between 0.00 and
\* 1.00 and no smaller depth has a smaller priority.
C16_Priority ==
    (call.fn = "getPriority") =>
        /\ Len(call.result) = 4 /\ call.result[2] = "."
        /\ Nearest(Hundredths(call.result), Scaled(call.depth - 1))
        /\ call.depth = 1 => call.result = <<"1", ".", "0", "0">>
        /\ call.depth = 2 => call.result = <<"0", ".", "8", "0">>
        /\ call.depth = 3 => call.result = <<"0", ".", "6", "4">>
        /\ Hundredths(call.result) \in 0..100
        /\ \A d \in 1..call.depth :
              Hundredths(getPriority(d)) >= Hundredths(call.result)

C16_Witness ==
    /\ call.fn = "getPriority" /\ call.depth = 5
    /\ call.result = <<"0", ".", "4", "1">>

\* the <url> elements of the sitemap for the record rec
EntriesOf(rec) ==
    {k \in 1..Len(out.urls) : out.urls[k].loc = escapeXml(UrlText(rec.path))}

\* C17: the rendered sitemap has exactly one <url> element for every record
\* of the store without error = true and none for a record with error = true;
\* a page whose fetch returned a non-success status is stored with
\* error = true and its worker returns no links.
C17_SitemapEntries ==
    /\ [](pc = "rendered" =>
            /\ \A p \in DOMAIN pages :
                  Cardinality(EntriesOf(pages[p])) = IF pages[p].error THEN 0 ELSE 1
            /\ Len(out.urls) = Cardinality({p \in DOMAIN pages : ~pages[p].error}))
    /\ [][\A i \in 1..Len(workers) :
             (/\ mode = "sitemap" /\ FetchResolves(i)
              /\ ~Ok(site.resp[workers[i].entry.path]))
                 => /\ workers[i].entry.path \in DOMAIN pages'
                    /\ pages'[workers[i].entry.path].error
                    /\ workers'[i].st = "done"
                    /\ workers'[i].result = <<>>]_vars

C17_Witness ==
    /\ pc = "rendered"
    /\ \E p \in DOMAIN pages : pages[p].error /\ site.links[p] # <<>>
    /\ Len(out.urls) > 1
    /\ Len(out.urls) < Cardinality(DOMAIN pages)

(***************************************************************************)
(* The report                                                              *)
(***************************************************************************)
Occurrences(seq, x) == Cardinality({k \in 1..Len(seq) : seq[k] = x})

\* the strings on the pages of the store under field
OnPages(field) ==
    UNION {{pages[p][field][k] : k \in 1..Len(pages[p][field])} : p \in DOMAIN pages}

RECURSIVE SumOfLengths(_, _)
SumOfLengths(keys, field) ==
    IF keys = {} THEN 0
    ELSE LET p == CHOOSE q \in keys : TRUE
         IN Len(pages[p][field]) + SumOfLengths(keys \ {p}, field)

\* C18: the global error list of the report holds every error string of every
\* page of the final store exactly once and nothing else, and likewise the
\* global warning list; the totals are the sums of the lengths of the pages'
\* lists, so each total is at least the length of the global list.
C18_GlobalLists ==
    (pc = "reported") =>
        /\ \A e \in OnPages("errors") : Occurrences(out.errors, e) = 1
        /\ \A w \in OnPages("warnings") : Occurrences(out.warnings, w) = 1
        /\ Len(out.errors) = Cardinality(OnPages("errors"))
        /\ Len(out.warnings) = Cardinality(OnPages("warnings"))
        /\ out.totalErrors = SumOfLengths(DOMAIN pages, "errors")
        /\ out.totalWarnings = SumOfLengths(DOMAIN pages, "warnings")
        /\ out.totalErrors >= Len(out.errors)
        /\ out.totalWarnings >= Len(out.warnings)

C18_Witness ==
    /\ pc = "reported"
    /\ Len(out.errors) > 1 /\ out.totalErrors > Len(out.errors)
    /\ Len(out.warnings) > 0
    /\ Cardinality(DOMAIN pages) > 1

(***************************************************************************)
(* Link extraction and the guard of checkPath                              *)
(***************************************************************************)
\* the first link of the call that gives the path and may be kept
FirstSource(path) ==
    LET from == {k \in 1..Len(call.hrefs) :
                    LET url == ResolveUrl(call.hrefs[k], call.base)
                    IN /\ url.pathname = path
                       /\ url.origin = OriginOf(call.base)
                       /\ \A q \in DOMAIN call.store : call.store[q].path # url}
    IN IF from = {} THEN 0 ELSE CHOOSE k \in from : \A j \in from : k <= j

\* C19: link extraction is a function of the links of the document, the base
\* and the store: the same inputs give the same sequence; no path is in it
\* twice; every path in it comes from a link of the base's origin whose URL is
\* the path field of no record of the store; the paths are in the order of
\* their first such link.
C19_LinkExtraction ==
    (call.fn = "links") =>
        LET res == call.result
        IN /\ res = ExtractLinks(call.mode, call.base, Seed(call.mode), call.hrefs,
                                 call.store, 1, 1)
           /\ \A j, k \in 1..Len(res) : res[j].path = res[k].path => j = k
           /\ \A k \in 1..Len(res) : FirstSource(res[k].path) > 0
           /\ \A j, k \in 1..Len(res) :
                 j < k => FirstSource(res[j].path) < FirstSource(res[k].path)

C19_Witness ==
    /\ call.fn = "links" /\ call.base = SiteOrigin
    /\ call.hrefs = <<Rel(PB), Rel(PA), Rel(PB)>>
    /\ DOMAIN call.store = {Root, PA}
    /\ Len(call.result) = 1 /\ call.result[1].path = PB

\* the guard of the checker's checkPath, as stated
SkipRule(path, store) ==
    \/ path \in DOMAIN store
    \/ Len(path) > 0 /\ path[1] = "http"
    \/ Len(path) > 0 /\ path[Len(path)] \in {"sitemap.xml", "robots.txt"}

\* C20: in the checker crawl a dispatched path that is a key of the store,
\* starts with "http" or ends with "sitemap.xml" or "robots.txt" is not
\* fetched: its worker issues no fetch, leaves the store as it is and returns
\* no candidates, and nothing happens to it until the batch settles.
C20_SkippedNotFetched ==
    [][mode = "check" =>
          /\ (pc = "loop" /\ pc' # "loop") =>
                \A i \in 1..Len(workers') :
                    SkipRule(workers'[i].entry.path, pages) =>
                        /\ workers'[i].st = "done"
                        /\ workers'[i].result = <<>>
                        /\ fetchCount'[workers'[i].entry.path]
                               = fetchCount[workers'[i].entry.path]
                        /\ pages' = pages
          /\ (pc = "await" /\ pc' = "await") =>
                \A i \in 1..Len(workers) :
                    workers[i].st = "done" => workers'[i] = workers[i]]_vars

C20_Witness ==
    /\ mode = "check" /\ pc = "await"
    /\ \E i, j, k \in 1..Len(workers) :
          /\ workers[i].entry.path = PR /\ workers[j].entry.path = PS
          /\ workers[k].entry.path = PA /\ workers[k].st = "fetch"
          /\ workers[i].st = "done" /\ workers[j].st = "done"
          /\ workers[i].result = <<>> /\ workers[j].result = <<>>
    /\ fetchCount[PR] = 0 /\ fetchCount[PS] = 0
    /\ DOMAIN pages = {Root}

(***************************************************************************)
(* Batches and writes to the store                                         *)
(***************************************************************************)
\* C21: a loop iteration with a non-empty frontier removes exactly
\* min(length of the frontier, max(limit, 1)) entries from its front, at
\* least one whatever the limit, and dispatches them; what a batch hands over
\* is put behind the entries that wait, so no entry is dispatched in a later
\* batch than an entry appended after it.
C21_BatchFromFront ==
    [][/\ (pc = "loop" /\ pc' \in {"await", "failed"}) =>
             LET n == IF Len(pagesToCheck) < Limit THEN Len(pagesToCheck) ELSE Limit
             IN /\ n >= 1
                /\ Len(workers') = n
                /\ \A i \in 1..n : workers'[i].entry = pagesToCheck[i]
                /\ pagesToCheck' = SubSeq(pagesToCheck, n + 1, Len(pagesToCheck))
       /\ (pc = "await" /\ pc' = "loop") =>
             /\ Len(pagesToCheck') >= Len(pagesToCheck)
             /\ pagesToCheck = SubSeq(pagesToCheck', 1, Len(pagesToCheck))]_vars

C21_Witness ==
    /\ pc = "await" /\ options.max < 1
    /\ Len(workers) = 1 /\ Len(pagesToCheck) >= 2
    /\ batchNo >= 3

\* C22: in the checker crawl a worker writes its record under a key that the
\* store does not have yet, so every key is written at most once, and no step
\* changes or removes a record that is in the store.
C22_WrittenOnce ==
    [][mode = "check" =>
          /\ \A p \in DOMAIN pages : p \in DOMAIN pages' /\ pages'[p] = pages[p]
          /\ \A i \in 1..Len(workers) :
                (/\ pc = "await" /\ workers[i].st \in {"fetch", "image"}
                 /\ i \in DOMAIN workers' /\ workers'[i].st = "done"
                 /\ IsHtml(site.resp[workers[i].entry.path]))
                    => /\ workers[i].entry.path \notin DOMAIN pages
                       /\ workers[i].entry.path \in DOMAIN pages']_vars

C22_Witness ==
    /\ mode = "check" /\ pc = "done"
    /\ Cardinality(DOMAIN pages) >= 4
    /\ \E p \in DOMAIN pages : Len(pages[p].errors) >= 2

(***************************************************************************)
(* The rules of the checks                                                 *)
(***************************************************************************)
SetOf(seq) == {seq[k] : k \in 1..Len(seq)}

\* the page of the call in the state, had the checks been registered in order
InOrder(order) ==
    CheckedPage(order, call.opts, call.doc, SiteOrigin, Root, 500)

\* C23: for every document and all options, the errors and the warnings of a
\* page are the same sets for every order in which the registered checks run.
C23_OrderIndependent ==
    (call.fn = "checks") =>
        \A order \in Orders :
            /\ SetOf(InOrder(order).errors) = SetOf(call.page.errors)
            /\ SetOf(InOrder(order).warnings) = SetOf(call.page.warnings)

\* the elements of the document of the call with the tag of heading level n
HeadingsAt(n) == {i \in 1..Len(call.doc.els) : call.doc.els[i].tag = HeadingTag(n)}

\* whether a message is an error about heading level n
AboutLevel(msg, n) ==
    /\ Len(msg) >= 3 /\ msg[1] = "SEO"
    /\ msg[2] \in {": Heading ", ": Heading hierarchy - h"}
    /\ <<msg[3]>> = Decimal(n)

ErrorsAbout(n) == {k \in 1..Len(call.page.errors) : AboutLevel(call.page.errors[k], n)}

\* C24: with seo enabled, after all registered checks a page whose headings
\* are one h1 and one or more h3 has exactly one error about level 3, and a
\* page that uses a level N > 1 with every level below N empty has an error
\* about level N.
C24_SkippedLevel ==
    (call.fn = "checks" /\ call.opts.seo) =>
        /\ (/\ Cardinality(HeadingsAt(1)) = 1 /\ HeadingsAt(3) # {}
            /\ \A n \in {2, 4, 5, 6} : HeadingsAt(n) = {})
               => Cardinality(ErrorsAbout(3)) = 1
        /\ \A n \in 2..6 :
              (HeadingsAt(n) # {} /\ \A m \in 1..(n - 1) : HeadingsAt(m) = {})
                  => ErrorsAbout(n) # {}

\* the links and buttons of the document of the call that nothing names:
\* no aria-label on the element, no text and no labelled element inside it,
\* and neither the element nor an ancestor hidden
Unnamed ==
    {i \in 1..Len(call.doc.els) :
        LET el == call.doc.els[i]
            inside == {j \in 1..Len(call.doc.els) : i \in Ancestors(call.doc, j)}
        IN /\ el.tag \in {"a", "button"} \/ GetAttribute(el, "role") = <<"button">>
           /\ ~Truthy(GetAttribute(el, "aria-label"))
           /\ TextContent(call.doc, i) = <<>>
           /\ \A j \in inside : ~Truthy(GetAttribute(call.doc.els[j], "aria-label"))
           /\ \A j \in {i} \cup Ancestors(call.doc, i) :
                 ~HasAttribute(call.doc.els[j], "aria-hidden")}

\* the errors of the page of the call whose text is text
ErrorsSaying(text) ==
    {k \in 1..Len(call.page.errors) : call.page.errors[k][2] = text}

\* C25: with accessibility enabled, the page has one "Not labelled
\* link/button" error for every link or button that nothing names, and none
\* for the others.
C25_UnnamedLinks ==
    (call.fn = "checks" /\ call.opts.accessibility) =>
        Cardinality(ErrorsSaying(": Not labelled link/button: ")) = Cardinality(Unnamed)

\* the elements of the document of the call with a role outside the
\* vocabulary, and those with a role of which a required attribute is absent
InvalidRole ==
    {i \in 1..Len(call.doc.els) :
        LET role == GetAttribute(call.doc.els[i], "role")
        IN Truthy(role) /\ role[1] \notin validRoles}

Incomplete ==
    {i \in 1..Len(call.doc.els) :
        LET role == GetAttribute(call.doc.els[i], "role")
        IN /\ Truthy(role) /\ role[1] \in DOMAIN ariaRequirements
           /\ \E k \in 1..Len(ariaRequirements[role[1]]) :
                 ~HasAttribute(call.doc.els[i], ariaRequirements[role[1]][k])}

\* C26: with accessibility enabled, the ARIA check records one error for every
\* element whose role is not in the vocabulary and one error for every
\* element whose role requires attributes of which at least one is absent,
\* and none for the other elements.
C26_AriaErrors ==
    (call.fn = "checks" /\ call.opts.accessibility) =>
        /\ Cardinality(ErrorsSaying(": Invalid ARIA role ")) = Cardinality(InvalidRole)
        /\ Cardinality(ErrorsSaying(": ARIA role ")) = Cardinality(Incomplete)

\* C27: for every loading time in whole milliseconds, 0 included, the
\* performance check sets one score, excellent below 1000, good below 2500,
\* needs-improvement below 4000, else poor; it adds one error if the time is
\* above 4000, one warning if it is above 2500 and at most 4000, and nothing
\* else.
C27_Performance ==
    (call.fn = "performance") =>
        /\ call.page.performanceScore =
              IF call.time < 1000 THEN "excellent"
              ELSE IF call.time < 2500 THEN "good"
              ELSE IF call.time < 4000 THEN "needs-improvement" ELSE "poor"
        /\ Len(call.page.errors) = IF call.time > 4000 THEN 1 ELSE 0
        /\ Len(call.page.warnings) =
              IF call.time > 2500 /\ call.time <= 4000 THEN 1 ELSE 0

\* C28: with seo, accessibility and socialMedia all false, the record of every
\* page fetched with success has no errors and no warnings after the
\* registered checks have run on it.
C28_FlagsOff ==
    (mode = "check" /\ ~options.seo /\ ~options.accessibility /\ ~options.socialMedia) =>
        \A p \in DOMAIN pages :
            (IsHtml(site.resp[p]) /\ Ok(site.resp[p]))
                => pages[p].errors = <<>> /\ pages[p].warnings = <<>>

\* whether a message is an error of the image loop of the seo check
IsImageMsg(msg) == msg[2] \in {": Image not reachable: ", ": Not an image: "}
NotImageMsg(msg) == ~IsImageMsg(msg)

\* the images of a path whose fetch throws, fails or is not an image
BadImages(s, p) ==
    LET srcs == ImgSrcs(PageDoc(s, p))
    IN {k \in 1..Len(srcs) : srcs[k] # "ok"}

\* C29: an image fetch of the seo check that throws, answers without success
\* or answers with a content type that is not an image adds exactly one error
\* for that image, and a reachable image adds none; the fetch never rejects
\* the page or ends the crawl, and when the last image is done the page is
\* stored with one image error per bad image, with everything the checks
\* record without the images, and its links are extracted.
C29_ImageFailure ==
    [][\A i \in 1..Len(workers) :
          (/\ pc = "await" /\ workers[i].st = "image"
           /\ i \in DOMAIN workers' /\ workers'[i] # workers[i]) =>
              LET w == workers[i]
                  path == w.entry.path
                  doc == PageDoc(site, path)
                  kind == ImgSrcs(doc)[w.img]
                  blank == PageRecord(mode, baseUrl, w.entry, <<>>, FALSE, site.time[path])
                  clean == RunChecks(methods, options, doc,
                                     [blank EXCEPT !.title = Trim(doc.title)], <<>>)
              IN /\ Len(workers'[i].errors)
                       = Len(w.errors) + (IF kind = "ok" THEN 0 ELSE 1)
                 /\ SubSeq(workers'[i].errors, 1, Len(w.errors)) = w.errors
                 /\ kind # "ok" => IsImageMsg(workers'[i].errors[Len(w.errors) + 1])
                 /\ pc' = "await"
                 /\ workers'[i].st \in {"image", "done"}
                 /\ workers'[i].st = "done" =>
                       /\ path \in DOMAIN pages'
                       /\ SelectSeq(pages'[path].errors, IsImageMsg) = workers'[i].errors
                       /\ Len(workers'[i].errors) = Cardinality(BadImages(site, path))
                       /\ SelectSeq(pages'[path].errors, NotImageMsg) = clean.errors
                       /\ pages'[path].warnings = clean.warnings
                       /\ pages'[path].performanceScore = clean.performanceScore
                       /\ workers'[i].result
                             = ExtractLinks(mode, baseUrl, w.entry, site.links[path],
                                            pages', batchNo, i)]_vars

C29_Witness ==
    /\ mode = "check" /\ pc = "done" /\ site = SiteFive
    /\ {PA, PB, PE} \subseteq DOMAIN pages
    /\ Len(SelectSeq(pages[PA].errors, IsImageMsg)) = 1
    /\ Len(SelectSeq(pages[PB].errors, IsImageMsg)) = 2

\* C30: the text of a <loc> is the path with < > & ' " replaced by &lt; &gt;
\* &amp; &apos; &quot; and every other character unchanged; no raw < > ' "
\* is left in it, and every & in it starts one of the five entities.
C30_Escaped ==
    (call.fn = "escapeXml") =>
        LET unsafe == call.unsafe
            loc == call.result
        IN /\ Len(loc) = Len(unsafe)
           /\ \A k \in 1..Len(unsafe) :
                 /\ unsafe[k] = "<" => loc[k] = "&lt;"
                 /\ unsafe[k] = ">" => loc[k] = "&gt;"
                 /\ unsafe[k] = "&" => loc[k] = "&amp;"
                 /\ unsafe[k] = "'" => loc[k] = "&apos;"
                 /\ unsafe[k] = "\"" => loc[k] = "&quot;"
                 /\ unsafe[k] \notin {"<", ">", "&", "'", "\""} => loc[k] = unsafe[k]
           /\ \A k \in 1..Len(loc) : loc[k] \notin {"<", ">", "&", "'", "\""}

C30_Witness ==
    /\ call.fn = "escapeXml"
    /\ {"<", ">", "&", "'", "\"", "a"} \subseteq SetOf(call.unsafe)
    /\ {"&lt;", "&gt;", "&amp;", "&apos;", "&quot;", "a"} \subseteq SetOf(call.result)

(***************************************************************************)
(* The order of the frontier and the order of completion                   *)
(***************************************************************************)
\* C31: in the sitemap crawl, at the start of every loop iteration the
\* entries of the frontier are in order of non-decreasing depth and their
\* depths differ by at most 1.
C31_FrontierByDepth ==
    (mode = "sitemap" /\ AtLoopStart) =>
        /\ \A i, j \in 1..Len(Frontier) :
              i <= j => Frontier[i].depth <= Frontier[j].depth
        /\ \A i, j \in 1..Len(Frontier) :
              Frontier[j].depth - Frontier[i].depth <= 1

C31_Witness ==
    /\ mode = "sitemap" /\ AtLoopStart /\ batchNo >= 2
    /\ Len(Frontier) >= 3
    /\ Frontier[1].depth + 1 = Frontier[Len(Frontier)].depth

\* the keys and the records of the store of a finished checker crawl as the
\* site, the base URL and the options give them, whatever the limit and the
\* order in which the fetches of a batch complete
ExpectedKeys ==
    IF baseUrl = SiteOrigin
    THEN {p \in Reachable(site, Cardinality(Paths)) :
             IsHtml(site.resp[p]) /\ ~Excluded(p)}
    ELSE {p \in {Root} : IsHtml(site.resp[p])}

ExpectedRecord(p) ==
    LET doc == PageDoc(site, p)
        entry == [path |-> p, depth |-> 0, id |-> <<>>]
        blank == PageRecord("check", baseUrl, entry, <<>>, FALSE, site.time[p])
    IN IF ~Ok(site.resp[p])
       THEN PageRecord("check", baseUrl, entry, << HttpError(site.resp[p].status) >>,
                       TRUE, site.time[p])
       ELSE RunChecks(methods, options, doc, [blank EXCEPT !.title = Trim(doc.title)],
                      IF options.seo
                      THEN AllImageErrors(ImgSrcs(doc), UrlOfPath(p, baseUrl))
                      ELSE <<>>)

NonPerformance(msgs) == SelectSeq(msgs, LAMBDA m : ~StartsWith(m, "Performance"))

\* C32: the store of a finished checker crawl is given by the site alone: its
\* keys and, for every key, the path, the title, the headings and the errors
\* and warnings other than those of the performance check are the same for
\* every limit and every order in which the fetches of a batch complete.
C32_StoreDetermined ==
    (mode = "check" /\ pc = "done") =>
        /\ Keys = ExpectedKeys
        /\ \A p \in Keys :
              LET rec == pages[p]
                  exp == ExpectedRecord(p)
              IN /\ rec.path = exp.path
                 /\ rec.title = exp.title
                 /\ rec.headings = exp.headings
                 /\ NonPerformance(rec.errors) = NonPerformance(exp.errors)
                 /\ NonPerformance(rec.warnings) = NonPerformance(exp.warnings)

\* a finished crawl in which a page dispatched after another page of its
\* batch was stored before it
C32_Witness ==
    /\ mode = "check" /\ pc = "done" /\ site = SiteFive /\ options.max = 3
    /\ Keys = {Root, PA, PB, PC, PD, PE}
    /\ \E a, b \in 1..Len(keyOrder) :
          a < b /\ keyOrder[a] = PC /\ keyOrder[b] = PA
    /\ pages[PB].errors # <<>>

====
